---------------------------- MODULE Spec2Model ----------------------------
(***************************************************************************)
(* A model of cloudantic's object-document mapper (schema/odm.py): record  *)
(* types registered into one shared table, key derivation, the attribute   *)
(* codec, and get/put/delete/query/scan over a partition/sort-key store.   *)
(*                                                                         *)
(* Python strings are TLA+ strings (Len, \o, SubSeq, Head and Tail act on  *)
(* them character by character).  A Python value is a record               *)
(* [t, s, b]: t is its type ("str", "bool", "none"), s its string payload  *)
(* and b its boolean payload; the unused payloads are "" and FALSE.        *)
(***************************************************************************)
EXTENDS Integers, Sequences, FiniteSets, TLC

VARIABLES
    entities,   \* DynamoDB.entities: the names of the registered record types
    tables,     \* the store: table name -> [items, stream, ttl]
    call,       \* the call whose outcome the caller has yet to take:
                \* [op, type, pk, sk, operator, kwargs, limit, offset]
    ret,        \* its outcome: [status, exc, data, recs, msg, cond, values, sent, waited]
    written,    \* the record of the most recent successful put while the
                \* store has not been written since (a sequence of <= 1 record)
    db,         \* cls.db of each defined record type: the handles its DynamoDB
                \* object has constructed and holds
    pc          \* each concurrent operation's position in its access to
                \* self.client, and the handle the access returned

vars == <<entities, tables, call, ret, written, db, pc>>

\* the connection state, which the operations on the store's data leave alone
conn == <<db, pc>>

---------------------------------------------------------------------------
(* Bounds of the model *)

MaxItems == 2       \* items the store holds at most, over all its tables

---------------------------------------------------------------------------
(* Python values and strings *)

Str(x) == [t |-> "str", s |-> x, b |-> FALSE]
Bool(x) == [t |-> "bool", s |-> "", b |-> x]
None == [t |-> "none", s |-> "", b |-> FALSE]

\* str(key): the string form of a value
pystr(v) ==
    CASE v.t = "str" -> v.s
      [] v.t = "bool" -> IF v.b THEN "True" ELSE "False"
      [] v.t = "none" -> "None"

\* truthiness of an Optional[str] argument (`if sk:`)
truthy(v) == v.t = "str" /\ v.s # ""

\* the characters in code-point order
Alphabet == "#-0123456789ABCDEFGHIJKLMNOPQRSTUVWXYZ_abcdefghijklmnopqrstuvwxyz"

CodePoints ==
    [c \in {SubSeq(Alphabet, i, i) : i \in 1..Len(Alphabet)} |->
       CHOOSE i \in 1..Len(Alphabet) : SubSeq(Alphabet, i, i) = c]

Ord(c) == CodePoints[c]

\* a < b for Python strings (lexicographic by code point)
RECURSIVE StrLess(_, _)
StrLess(a, b) ==
    IF b = "" THEN FALSE
    ELSE IF a = "" THEN TRUE
    ELSE IF Head(a) = Head(b) THEN StrLess(Tail(a), Tail(b))
    ELSE Ord(Head(a)) < Ord(Head(b))

StrLeq(a, b) == a = b \/ StrLess(a, b)

\* s.startswith(p)
StartsWith(s, p) == Len(p) <= Len(s) /\ SubSeq(s, 1, Len(p)) = p

\* sep.join(parts)
RECURSIVE join(_, _)
join(sep, parts) ==
    IF parts = <<>> THEN ""
    ELSE IF Len(parts) = 1 THEN parts[1]
    ELSE parts[1] \o sep \o join(sep, Tail(parts))

\* s.split(sep) for a one-character separator
RECURSIVE split(_, _)
split(s, sep) ==
    IF \A i \in 1..Len(s) : SubSeq(s, i, i) # sep THEN <<s>>
    ELSE LET i == CHOOSE k \in 1..Len(s) :
                     /\ SubSeq(s, k, k) = sep
                     /\ \A j \in 1..(k - 1) : SubSeq(s, j, j) # sep
         IN  <<SubSeq(s, 1, i - 1)>> \o split(SubSeq(s, i + 1, Len(s)), sep)

\* list.sort() after list.append(x) on a sorted list of strings
RECURSIVE insort(_, _)
insort(lst, x) ==
    IF lst = <<>> THEN <<x>>
    ELSE IF StrLess(x, lst[1]) THEN <<x>> \o lst
    ELSE <<lst[1]>> \o insort(Tail(lst), x)

---------------------------------------------------------------------------
(* Record types.  A field declaration is                                   *)
(* [name, type, optional, required, default, factory, pk, sk].             *)

Fld(name, type, optional, required, default, factory, pk, sk) ==
    [name |-> name, type |-> type, optional |-> optional,
     required |-> required, default |-> default, factory |-> factory,
     pk |-> pk, sk |-> sk]

\* the record types of main.py that the operations below are exercised on,
\* with their required, defaulted and key fields (the Optional[str] fields of
\* User that default to None and carry no key flag are left out), and Note,
\* a type that declares a partition-key field and no sort-key field
Types == {"Namespace", "Note", "Post", "Task", "User"}

Fields(T) ==
    CASE T = "Namespace" ->
           << Fld("user", "str", FALSE, TRUE, None, FALSE, TRUE, FALSE),
              Fld("namespace", "str", FALSE, TRUE, None, FALSE, FALSE, TRUE),
              Fld("created_at", "str", FALSE, FALSE, None, TRUE, FALSE, FALSE) >>
      [] T = "Task" ->
           << Fld("user", "str", FALSE, TRUE, None, FALSE, TRUE, FALSE),
              Fld("title", "str", FALSE, TRUE, None, FALSE, FALSE, FALSE),
              Fld("description", "str", FALSE, TRUE, None, FALSE, FALSE, FALSE),
              Fld("created_at", "str", FALSE, FALSE, None, TRUE, FALSE, FALSE),
              Fld("completed", "bool", FALSE, FALSE, Bool(FALSE), FALSE, FALSE, TRUE) >>
      [] T = "User" ->
           << Fld("email_verified", "bool", TRUE, FALSE, Bool(FALSE), FALSE, FALSE, FALSE),
              Fld("locale", "str", TRUE, FALSE, None, FALSE, FALSE, TRUE),
              Fld("name", "str", FALSE, TRUE, None, FALSE, FALSE, FALSE),
              Fld("sub", "str", FALSE, TRUE, None, FALSE, TRUE, FALSE) >>
      [] T = "Post" ->
           << Fld("user", "str", FALSE, TRUE, None, FALSE, TRUE, FALSE),
              Fld("namespace", "str", FALSE, TRUE, None, FALSE, FALSE, TRUE),
              Fld("title", "str", FALSE, TRUE, None, FALSE, FALSE, FALSE),
              Fld("content", "str", FALSE, TRUE, None, FALSE, FALSE, FALSE),
              Fld("created_at", "str", FALSE, FALSE, None, TRUE, FALSE, TRUE) >>
      [] T = "Note" ->
           << Fld("user", "str", FALSE, TRUE, None, FALSE, TRUE, FALSE) >>

\* the class a record type derives from: Admin is a record type derived from
\* the record type User, every other one derives from DynaModel
Base(T) == IF T = "Admin" THEN "User" ELSE "DynaModel"

FieldNames(T) == {Fields(T)[i].name : i \in 1..Len(Fields(T))}

\* the declared fields of T flagged with `flag`, in declaration order
RECURSIVE Flagged(_, _)
Flagged(fs, flag) ==
    IF fs = <<>> THEN <<>>
    ELSE (IF (IF flag = "pk" THEN fs[1].pk ELSE fs[1].sk) THEN <<fs[1].name>> ELSE <<>>)
         \o Flagged(Tail(fs), flag)

---------------------------------------------------------------------------
(* Key derivation.  An instance is a function from attribute names to      *)
(* values; a result is [ok, exc, s].                                       *)

\* pk_ without the type-name prefix
pk_bare(T, inst) ==
    LET ks == Flagged(Fields(T), "pk")
    IN  [ok |-> ks # <<>>, exc |-> "", s |-> IF ks = <<>> THEN "" ELSE pystr(inst[ks[1]])]

\* DynaModel.pk_
pk_(T, inst) ==
    LET ks == Flagged(Fields(T), "pk")
    IN  IF ks = <<>>
        THEN [ok |-> FALSE, exc |-> "ValueError: No partition key found", s |-> ""]
        ELSE [ok |-> TRUE, exc |-> "", s |-> T \o "#" \o pystr(inst[ks[1]])]

\* sk_ returning at the first sort-key contributor it meets
sk_first(T, inst) ==
    LET ks == Flagged(Fields(T), "sk")
    IN  IF ks = <<>>
        THEN [ok |-> FALSE, exc |-> "ValueError: No sort key found", s |-> ""]
        ELSE [ok |-> TRUE, exc |-> "", s |-> pystr(inst[ks[1]])]

\* DynaModel.sk_
sk_(T, inst) ==
    LET ks == Flagged(Fields(T), "sk")
        keys == [i \in 1..Len(ks) |-> pystr(inst[ks[i]])]
    IN  IF Len(keys) = 0
        THEN [ok |-> FALSE, exc |-> "ValueError: No sort key found", s |-> ""]
        ELSE [ok |-> TRUE, exc |-> "", s |-> join("#", keys)]

---------------------------------------------------------------------------
(* Construction.  kwargs is a function from keyword names to values; now   *)
(* is the string the created_at default factory returns.                   *)

BOOL_TRUE == {"1", "on", "t", "true", "y", "yes"}
BOOL_FALSE == {"0", "off", "f", "false", "n", "no"}

\* pydantic's validation of one supplied value against a field: [ok, v]
Coerce(f, v) ==
    CASE v.t = "none" -> [ok |-> f.optional, v |-> None]
      [] v.t = "str" /\ f.type = "str" -> [ok |-> TRUE, v |-> v]
      [] v.t = "bool" /\ f.type = "str" -> [ok |-> TRUE, v |-> Str(pystr(v))]
      [] v.t = "bool" /\ f.type = "bool" -> [ok |-> TRUE, v |-> v]
      [] v.t = "str" /\ f.type = "bool" ->
           IF v.s \in BOOL_TRUE THEN [ok |-> TRUE, v |-> Bool(TRUE)]
           ELSE IF v.s \in BOOL_FALSE THEN [ok |-> TRUE, v |-> Bool(FALSE)]
           ELSE [ok |-> FALSE, v |-> None]

\* the value a declared field gets: supplied, or its default, or missing
FieldValue(f, kwargs, now) ==
    IF f.name \in DOMAIN kwargs THEN Coerce(f, kwargs[f.name])
    ELSE IF f.required THEN [ok |-> FALSE, v |-> None]
    ELSE IF f.factory THEN [ok |-> TRUE, v |-> Str(now)]
    ELSE [ok |-> TRUE, v |-> f.default]

\* the pk and sk fields of DynaModel: str, default "", aliases _pk and _sk
KeyFld(name) == Fld(name, "str", FALSE, FALSE, Str(""), FALSE, FALSE, FALSE)

\* populated by alias, or by field name (allow_population_by_field_name)
KeyFieldValue(name, kwargs) ==
    IF ("_" \o name) \in DOMAIN kwargs THEN Coerce(KeyFld(name), kwargs["_" \o name])
    ELSE FieldValue(KeyFld(name), kwargs, "")

\* super().__init__(**kwargs): pydantic validates the keywords: [ok, inst]
Validate(T, kwargs, now) ==
    LET fs == Fields(T)
        fv(i) == FieldValue(fs[i], kwargs, now)
        declared == FieldNames(T) \cup {"pk", "sk"}
        names == declared \cup (DOMAIN kwargs \ {"_pk", "_sk"})
    IN  [ok |-> /\ \A i \in 1..Len(fs) : fv(i).ok
                /\ KeyFieldValue("pk", kwargs).ok
                /\ KeyFieldValue("sk", kwargs).ok,
         inst |-> [n \in names |->
                     IF n \in {"pk", "sk"} THEN KeyFieldValue(n, kwargs).v
                     ELSE IF n \notin declared THEN kwargs[n]
                     ELSE fv(CHOOSE i \in 1..Len(fs) : fs[i].name = n).v]]

\* self.pk = self.pk_ and self.sk = self.sk_: key is the derived key
SetKey(inst, name, key) ==
    IF key.ok THEN [ok |-> TRUE, exc |-> "", inst |-> <<[inst EXCEPT ![name] = Str(key.s)]>>]
    ELSE [ok |-> FALSE, exc |-> key.exc, inst |-> <<>>]

SetSk(T, r) == IF r.ok THEN SetKey(r.inst[1], "sk", sk_(T, r.inst[1])) ELSE r

SetKeys(T, v) ==
    IF v.ok THEN SetSk(T, SetKey(v.inst, "pk", pk_(T, v.inst)))
    ELSE [ok |-> FALSE, exc |-> "ValidationError", inst |-> <<>>]

\* DynaModel.__init__: [ok, exc, inst], inst a sequence of at most one instance
DynaModel_init(T, kwargs, now) == SetKeys(T, Validate(T, kwargs, now))

---------------------------------------------------------------------------
(* The attribute codec.  A wire attribute is [tag, s, b] with tag "S",     *)
(* "BOOL" or "NULL"; an item is a function from attribute names to wire    *)
(* attributes.                                                             *)

\* DynaModel.to_dict: BaseModel.dict with exclude_none (pk and sk stay in)
to_dict(inst) == [n \in {m \in DOMAIN inst : inst[m].t # "none"} |-> inst[n]]

\* TypeSerializer.serialize of one value
serialize_value(v) ==
    CASE v.t = "str" -> [tag |-> "S", s |-> v.s, b |-> FALSE]
      [] v.t = "bool" -> [tag |-> "BOOL", s |-> "", b |-> v.b]
      [] v.t = "none" -> [tag |-> "NULL", s |-> "", b |-> TRUE]

\* TypeDeserializer.deserialize of one wire attribute
deserialize_value(a) ==
    CASE a.tag = "S" -> Str(a.s)
      [] a.tag = "BOOL" -> Bool(a.b)
      [] a.tag = "NULL" -> None

\* DynamoDB.serialize
serialize(inst) == LET d == to_dict(inst) IN [n \in DOMAIN d |-> serialize_value(d[n])]

\* DynamoDB.deserialize
deserialize(item) == [n \in DOMAIN item |-> deserialize_value(item[n])]

---------------------------------------------------------------------------
(* The table registry *)

\* the names of a set of types, appended one by one and sorted after each
RECURSIVE sorted_names(_)
sorted_names(S) ==
    IF S = {} THEN <<>>
    ELSE LET ent == CHOOSE x \in S : TRUE
         IN  insort(sorted_names(S \ {ent}), ent)

\* __table_name__ keeping the first name it computed
table_name_cached(ents) ==
    IF ret.msg # "" THEN ret.msg ELSE join("-", sorted_names(ents))

\* DynamoDB.__table_name__
DynamoDB_table_name(ents) == join("-", sorted_names(ents))

\* DynaModel.__table_name__ called on cls: its direct subclasses
DynaModel_table_name(cls, ents) ==
    join("-", sorted_names({T \in ents : Base(T) = cls}))

---------------------------------------------------------------------------
(* The store behind the boto3 client.  A table is [items, stream, ttl];    *)
(* an item's key is its pk and sk attributes.                              *)

EmptyDict == [n \in {} |-> None]

SAttr(x) == [tag |-> "S", s |-> x, b |-> FALSE]

ItemsOf(tbls, name) == IF name \in DOMAIN tbls THEN tbls[name].items ELSE {}

HasKey(item, pk, sk) == item["pk"] = SAttr(pk) /\ item["sk"] = SAttr(sk)

\* items in ascending sort-key order
RECURSIVE BySortKey(_)
BySortKey(S) ==
    IF S = {} THEN <<>>
    ELSE LET m == CHOOSE x \in S : \A y \in S : StrLeq(x["sk"].s, y["sk"].s)
         IN  <<m>> \o BySortKey(S \ {m})

Comparators == {"=", ">", "<", ">=", "<="}

\* the Operator literal type: the operator values a query is declared to take
Operator == {Str(o) : o \in Comparators \cup {"begins_with", "between", "contains"}}

Compare(op, a, b) ==
    CASE op = "=" -> a = b
      [] op = ">" -> StrLess(b, a)
      [] op = "<" -> StrLess(a, b)
      [] op = ">=" -> StrLeq(b, a)
      [] op = "<=" -> StrLeq(a, b)

\* the store's query: [ok, exc, items], items in sort-key order
StoreQuery(items, cond, values) ==
    LET part == {i \in items : i["pk"] = values[":pk"]}
        Ok(S) == [ok |-> TRUE, exc |-> "", items |-> BySortKey(S)]
        Bad == [ok |-> FALSE, exc |-> "ValidationException", items |-> <<>>]
    IN  IF cond = "pk = :pk" THEN Ok(part)
        ELSE IF cond = "pk = :pk AND begins_with ( sk, :sk )"
        THEN Ok({i \in part : StartsWith(i["sk"].s, values[":sk"].s)})
        ELSE IF cond = "pk = :pk AND sk BETWEEN :sk0 AND :sk1"
        THEN IF StrLess(values[":sk1"].s, values[":sk0"].s) THEN Bad
             ELSE Ok({i \in part : /\ StrLeq(values[":sk0"].s, i["sk"].s)
                                   /\ StrLeq(i["sk"].s, values[":sk1"].s)})
        ELSE IF \E op \in Comparators : cond = "pk = :pk AND sk " \o op \o " :sk"
        THEN LET op == CHOOSE o \in Comparators : cond = "pk = :pk AND sk " \o o \o " :sk"
             IN  Ok({i \in part : Compare(op, i["sk"].s, values[":sk"].s)})
        ELSE Bad

---------------------------------------------------------------------------
(* DynamoDB: the table-level operations.  ents is DynamoDB.entities and    *)
(* tbls the store.                                                         *)

\* DynamoDB.get: [ok, exc, data], data a sequence holding the dictionary returned
DynamoDB_get(ents, tbls, pk, sk) ==
    LET name == DynamoDB_table_name(ents)
        hit == {i \in ItemsOf(tbls, name) : HasKey(i, pk, sk)}
    IN  IF name \notin DOMAIN tbls
        THEN [ok |-> FALSE, exc |-> "ResourceNotFoundException", data |-> <<>>]
        ELSE [ok |-> TRUE, exc |-> "",
              data |-> IF hit = {} THEN <<deserialize(EmptyDict)>>
                       ELSE <<deserialize(CHOOSE i \in hit : TRUE)>>]

\* DynamoDB.put: [ok, exc, tables]
DynamoDB_put(ents, tbls, inst) ==
    LET name == DynamoDB_table_name(ents)
        item == serialize(inst)
        kept == {i \in ItemsOf(tbls, name) : ~HasKey(i, item["pk"].s, item["sk"].s)}
    IN  IF name \notin DOMAIN tbls
        THEN [ok |-> FALSE, exc |-> "ResourceNotFoundException", tables |-> tbls]
        ELSE [ok |-> TRUE, exc |-> "",
              tables |-> [tbls EXCEPT ![name].items = kept \cup {item}]]

\* delete removing every item of the partition
delete_partition(ents, tbls, pk, sk) ==
    LET name == DynamoDB_table_name(ents)
        kept == {i \in ItemsOf(tbls, name) : i["pk"] # SAttr(pk)}
    IN  IF name \notin DOMAIN tbls
        THEN [ok |-> FALSE, exc |-> "ResourceNotFoundException", tables |-> tbls]
        ELSE [ok |-> TRUE, exc |-> "", tables |-> [tbls EXCEPT ![name].items = kept]]

\* DynamoDB.delete: [ok, exc, tables]
DynamoDB_delete(ents, tbls, pk, sk) ==
    LET name == DynamoDB_table_name(ents)
        kept == {i \in ItemsOf(tbls, name) : ~HasKey(i, pk, sk)}
    IN  IF name \notin DOMAIN tbls
        THEN [ok |-> FALSE, exc |-> "ResourceNotFoundException", tables |-> tbls]
        ELSE [ok |-> TRUE, exc |-> "", tables |-> [tbls EXCEPT ![name].items = kept]]

\* str(n) for the small numbers used as limit and offset
IntStr(n) == SubSeq("0123456789", n + 1, n + 1)

\* the key condition with every sort-key operator translated as equality
KeyCondition_equality(pk, sk, operator, limit, offset) ==
    IF ~truthy(sk)
    THEN [ok |-> TRUE, exc |-> "", cond |-> "pk = :pk", values |-> [n \in {":pk"} |-> SAttr(pk)]]
    ELSE [ok |-> TRUE, exc |-> "", cond |-> "pk = :pk AND sk = :sk",
          values |-> [n \in {":pk", ":sk"} |-> IF n = ":pk" THEN SAttr(pk) ELSE SAttr(sk.s)]]

\* the key condition and expression values DynamoDB.query builds:
\* [ok, exc, cond, values]; limit and offset are 0 when not given
KeyCondition(pk, sk, operator, limit, offset) ==
    LET base == "pk = :pk"
        pkv == [n \in {":pk"} |-> SAttr(pk)]
        parts == split(sk.s, "-")
        tail == (IF limit # 0 THEN " LIMIT " \o IntStr(limit) ELSE "")
                \o (IF offset # 0 THEN " OFFSET " \o IntStr(offset) ELSE "")
        Ok(c, v) == [ok |-> TRUE, exc |-> "", cond |-> c \o tail, values |-> v]
        Raise(e) == [ok |-> FALSE, exc |-> e, cond |-> "", values |-> pkv]
    IN  IF ~truthy(sk) THEN Ok(base, pkv)
        ELSE IF operator = Str("begins_with")
        THEN Ok(base \o " AND begins_with ( sk, :sk )",
                [n \in {":pk", ":sk"} |-> IF n = ":pk" THEN SAttr(pk) ELSE SAttr(sk.s)])
        ELSE IF operator = Str("between")
        THEN IF Len(parts) # 2 THEN Raise("ValueError: unpack")
             ELSE Ok(base \o " AND sk BETWEEN :sk0 AND :sk1",
                     [n \in {":pk", ":sk0", ":sk1"} |->
                        IF n = ":pk" THEN SAttr(pk)
                        ELSE IF n = ":sk0" THEN SAttr(parts[1]) ELSE SAttr(parts[2])])
        ELSE IF operator.t = "str" /\ operator.s \in Comparators
        THEN Ok(base \o " AND sk " \o operator.s \o " :sk",
                [n \in {":pk", ":sk"} |-> IF n = ":pk" THEN SAttr(pk) ELSE SAttr(sk.s)])
        ELSE Raise("ValueError: Invalid sort key")

\* DynamoDB.query: [ok, exc, data, cond, values, sent]
DynamoDB_query(ents, tbls, pk, sk, operator, limit, offset) ==
    LET name == DynamoDB_table_name(ents)
        kc == KeyCondition(pk, sk, operator, limit, offset)
        res == StoreQuery(ItemsOf(tbls, name), kc.cond, kc.values)
        Out(ok, exc, data, sent) ==
            [ok |-> ok, exc |-> exc, data |-> data, cond |-> kc.cond,
             values |-> kc.values, sent |-> sent]
    IN  IF ~kc.ok THEN Out(FALSE, kc.exc, <<>>, FALSE)
        ELSE IF name \notin DOMAIN tbls
        THEN Out(FALSE, "ResourceNotFoundException", <<>>, TRUE)
        ELSE IF ~res.ok THEN Out(FALSE, res.exc, <<>>, TRUE)
        ELSE Out(TRUE, "", [i \in 1..Len(res.items) |-> deserialize(res.items[i])], TRUE)

\* DynamoDB.scan: [ok, exc, data]; order is the order the store returns the
\* table's items in
DynamoDB_scan(ents, tbls, limit, offset, order) ==
    LET name == DynamoDB_table_name(ents)
        n == IF limit # 0 /\ limit < Len(order) THEN limit ELSE Len(order)
    IN  IF offset # 0
        THEN [ok |-> FALSE, exc |-> "ParamValidationError", data |-> <<>>]
        ELSE IF name \notin DOMAIN tbls
        THEN [ok |-> FALSE, exc |-> "ResourceNotFoundException", data |-> <<>>]
        ELSE [ok |-> TRUE, exc |-> "",
              data |-> [i \in 1..n |-> deserialize(order[i])]]

---------------------------------------------------------------------------
(* DynaModel: the record-level operations.  Each returns                   *)
(* [ok, exc, data, recs]: data is what the table-level call returned (a    *)
(* sequence of dictionaries) and recs the records built from it.           *)

\* the @handle and @async_io wrappers of utils: the wrapped call's result or
\* failure reaches the caller
handle(result) == result

\* one more record in front of the records built so far
Prepend(r, rest) ==
    IF ~r.ok THEN [ok |-> FALSE, exc |-> r.exc, recs |-> <<>>]
    ELSE IF ~rest.ok THEN rest
    ELSE [ok |-> TRUE, exc |-> "", recs |-> r.inst \o rest.recs]

\* [cls(**item) for item in data]: [ok, exc, recs]
RECURSIVE build(_, _, _)
build(T, data, now) ==
    IF data = <<>> THEN [ok |-> TRUE, exc |-> "", recs |-> <<>>]
    ELSE Prepend(DynaModel_init(T, data[1], now), build(T, Tail(data), now))

\* the outcome of a table-level call d, with the records made from its data
WithRecs(d, made) ==
    IF ~d.ok THEN [recs |-> <<>>] @@ d
    ELSE [ok |-> made.ok, exc |-> made.exc, recs |-> made.recs] @@ d

Typed(T, d, now) == WithRecs(d, build(T, d.data, now))

\* DynaModel.get
DynaModel_get(T, ents, tbls, pk, sk, now) ==
    LET prefix == T \o "#"
    IN  handle(Typed(T, DynamoDB_get(ents, tbls, prefix \o pk, sk), now))

\* DynaModel.query
DynaModel_query(T, ents, tbls, pk, sk, operator, now) ==
    LET prefix == T \o "#"
    IN  handle(Typed(T, DynamoDB_query(ents, tbls, prefix \o pk, sk, operator, 0, 0), now))

\* DynaModel.scan
DynaModel_scan(T, ents, tbls, limit, offset, order, now) ==
    handle(Typed(T, DynamoDB_scan(ents, tbls, limit, offset, order), now))

\* DynaModel.put: [ok, exc, tables]
DynaModel_put(ents, tbls, inst) == handle(DynamoDB_put(ents, tbls, inst))

\* DynaModel.delete: [ok, exc, tables]
DynaModel_delete(T, ents, tbls, pk, sk) ==
    LET prefix == T \o "#"
    IN  handle(DynamoDB_delete(ents, tbls, prefix \o pk, sk))

\* the steps of create_table at which the store may fail a call, beyond its
\* refusal of a table that exists or of a name under 3 characters
Faults == {"none", "create_table", "update_time_to_live", "wait"}

\* create_table reporting success whatever the store answered
create_table_unchecked(cls, ents, tbls, fault) ==
    LET table_name == DynaModel_table_name(cls, ents)
    IN  handle([msg |-> "Table " \o table_name \o " created successfully",
                tables |-> tbls, waited |-> FALSE])

\* DynaModel.create_table: [msg, tables, waited]; fault is the step at which
\* the store fails
DynaModel_create_table(cls, ents, tbls, fault) ==
    LET table_name == DynaModel_table_name(cls, ents)
        refused == \/ table_name \in DOMAIN tbls
                   \/ Len(table_name) < 3
                   \/ fault = "create_table"
        created == [items |-> {}, stream |-> TRUE, ttl |-> FALSE]
        withTtl == [created EXCEPT !.ttl = TRUE]
        exists == "Table " \o table_name \o " already exists"
    IN  IF refused
        THEN handle([msg |-> exists, tables |-> tbls, waited |-> FALSE])
        ELSE IF fault = "update_time_to_live"
        THEN handle([msg |-> exists, tables |-> tbls @@ (table_name :> created),
                     waited |-> FALSE])
        ELSE IF fault = "wait"
        THEN handle([msg |-> exists, tables |-> tbls @@ (table_name :> withTtl),
                     waited |-> FALSE])
        ELSE handle([msg |-> "Table " \o table_name \o " created successfully",
                     tables |-> tbls @@ (table_name :> withTtl), waited |-> TRUE])

\* DynaModel.drop_table: [dropped, tables]
DynaModel_drop_table(cls, ents, tbls) ==
    LET table_name == DynaModel_table_name(cls, ents)
    IN  IF table_name \notin DOMAIN tbls
        THEN handle([dropped |-> FALSE, tables |-> tbls])
        ELSE handle([dropped |-> TRUE,
                     tables |-> [n \in DOMAIN tbls \ {table_name} |-> tbls[n]]])

---------------------------------------------------------------------------
(* Inputs *)

PkArgs == {"u", "v"}

\* what the created_at default factory may return
Stamps == {"b"}

Kwargs(T) ==
    CASE T = "Namespace" ->
           { [user |-> Str("u"), namespace |-> Str("a")] }
      [] T = "Task" ->
           { [user |-> Str("u"), title |-> Str("t"), description |-> Str("d")],
             [user |-> Str("u"), title |-> Str("t"), description |-> Str("d"),
              completed |-> Bool(TRUE)],
             [user |-> Str("u"), completed |-> Bool(TRUE)] }
      [] T = "User" ->
           { [name |-> Str("n"), sub |-> Str("u")],
             [name |-> Str("n"), sub |-> Str("u"), locale |-> Str("a")],
             [name |-> Str("n"), sub |-> Str("u"), email_verified |-> None],
             [name |-> Str("n"), sub |-> Str("u"), email_verified |-> Bool(TRUE),
              locale |-> None] }
      [] T = "Post" ->
           { [user |-> Str("u"), namespace |-> Str(n), title |-> Str("t"),
              content |-> Str("c")] : n \in {"a", "ab", "c"} }
      [] T = "Note" ->
           { [user |-> Str("u")] }

\* sort keys asked for by get and delete
SkArgs == {"False", "True", "None", "a", "a#b", "ab#b"}

\* sort-key values and operators given to query
QuerySk == {None, Str(""), Str("a"), Str("ab"), Str("a#b"), Str("a-b"), Str("a-b-c")}

OperatorArgs == {None} \cup Operator \cup {Str("like")}

\* the orders a scan may return a set of items in
Orders(S) ==
    {o \in [1..Cardinality(S) -> S] : \A i, j \in 1..Cardinality(S) : i # j => o[i] # o[j]}

RECURSIVE TotalItems(_)
TotalItems(tbls) ==
    IF DOMAIN tbls = {} THEN 0
    ELSE LET n == CHOOSE x \in DOMAIN tbls : TRUE
         IN  Cardinality(tbls[n].items)
             + TotalItems([m \in DOMAIN tbls \ {n} |-> tbls[m]])

---------------------------------------------------------------------------
(* State *)

NoTables == [n \in {} |-> [items |-> {}, stream |-> FALSE, ttl |-> FALSE]]

NoCall ==
    [op |-> "", type |-> "", pk |-> "", sk |-> None, operator |-> None,
     kwargs |-> <<>>, limit |-> 0, offset |-> 0]

NoRet ==
    [status |-> "", exc |-> "", data |-> <<>>, recs |-> <<>>, msg |-> "",
     cond |-> "", values |-> EmptyDict, sent |-> FALSE, waited |-> FALSE]

Status(ok) == IF ok THEN "ok" ELSE "raise"

\* the operations that may be in flight at once
Threads == {"op1", "op2"}

\* DynamoDB.__init__: the state of a DynamoDB object once constructed.
\* sessions and clients count the Session and client objects the object has
\* constructed; proxied and client are the ones it holds (0: none, k: the
\* k-th constructed); accessed: a handle has been asked of it
DynamoDB_init ==
    [sessions |-> 1, proxied |-> 0, clients |-> 0, client |-> 0, accessed |-> FALSE]

\* an operation that is not inside an access to self.client
NoAccess == [at |-> "idle", owner |-> "", got |-> 0]

\* the state once main.py is imported: every record type is defined
Init ==
    /\ entities = Types
    /\ tables = NoTables
    /\ call = NoCall
    /\ ret = NoRet
    /\ written = <<>>
    /\ db = [T \in Types |-> DynamoDB_init]
    /\ pc = [t \in Threads |-> NoAccess]

\* the state before any record type is defined
InitRegistry ==
    /\ entities = {}
    /\ tables = NoTables
    /\ call = NoCall
    /\ ret = NoRet
    /\ written = <<>>
    /\ db = [T \in {} |-> DynamoDB_init]
    /\ pc = [t \in Threads |-> NoAccess]

---------------------------------------------------------------------------
(* Actions *)

\* no call is in progress: the caller has taken the last outcome
Idle == call = NoCall

\* the caller takes the outcome of the call it made
Resume ==
    /\ ~Idle
    /\ call' = NoCall
    /\ ret' = NoRet
    /\ UNCHANGED <<entities, tables, written>>
    /\ UNCHANGED conn

\* class T(DynaModel): __init_subclass__ registers T through DynamoDB[T] and
\* constructs cls.db = DynamoDB[T](T)
DefineType(T) ==
    /\ T \notin entities
    /\ Base(T) \in {"DynaModel"} \cup entities
    /\ entities' = entities \cup {T}
    /\ db' = [U \in entities \cup {T} |-> IF U = T THEN DynamoDB_init ELSE db[U]]
    /\ call' = [NoCall EXCEPT !.op = "define", !.type = T]
    /\ UNCHANGED <<tables, ret, written, pc>>

\* DynamoDB(cls).__table_name__
TableName(cls) ==
    /\ cls \in {"DynaModel"} \cup entities
    /\ call' = [NoCall EXCEPT !.op = "table_name", !.type = cls]
    /\ ret' = [NoRet EXCEPT !.status = "ok", !.msg = DynamoDB_table_name(entities)]
    /\ UNCHANGED <<entities, tables, written>>
    /\ UNCHANGED conn

\* T(**kwargs)
Construct(T, kwargs, now) ==
    /\ Idle
    /\ T \in entities
    /\ \E r \in {DynaModel_init(T, kwargs, now)} :
         /\ call' = [NoCall EXCEPT !.op = "construct", !.type = T, !.kwargs = <<kwargs>>]
         /\ ret' = [NoRet EXCEPT !.status = Status(r.ok), !.exc = r.exc, !.recs = r.inst]
    /\ UNCHANGED <<entities, tables, written>>
    /\ UNCHANGED conn

\* await T(**kwargs).put()
Put(T, kwargs, now) ==
    /\ Idle
    /\ T \in entities
    /\ \E r \in {DynaModel_init(T, kwargs, now)} :
         /\ r.ok
         /\ \E p \in {DynaModel_put(entities, tables, r.inst[1])} :
              /\ TotalItems(p.tables) <= MaxItems
              /\ call' = [NoCall EXCEPT !.op = "put", !.type = T, !.kwargs = <<kwargs>>]
              /\ ret' = [NoRet EXCEPT !.status = Status(p.ok), !.exc = p.exc,
                                      !.recs = r.inst, !.sent = TRUE]
              /\ tables' = p.tables
              /\ written' = IF p.ok THEN r.inst ELSE <<>>
    /\ UNCHANGED entities
    /\ UNCHANGED conn

\* await T.get(pk, sk)
Get(T, pk, sk, now) ==
    /\ Idle
    /\ T \in entities
    /\ \E g \in {DynaModel_get(T, entities, tables, pk, sk, now)} :
         /\ call' = [NoCall EXCEPT !.op = "get", !.type = T, !.pk = pk, !.sk = Str(sk)]
         /\ ret' = [NoRet EXCEPT !.status = Status(g.ok), !.exc = g.exc,
                                 !.data = g.data, !.recs = g.recs, !.sent = TRUE]
    /\ UNCHANGED <<entities, tables, written>>
    /\ UNCHANGED conn

\* await T.delete(pk, sk)
Delete(T, pk, sk) ==
    /\ Idle
    /\ T \in entities
    /\ \E d \in {DynaModel_delete(T, entities, tables, pk, sk)} :
         /\ call' = [NoCall EXCEPT !.op = "delete", !.type = T, !.pk = pk, !.sk = Str(sk)]
         /\ ret' = [NoRet EXCEPT !.status = Status(d.ok), !.exc = d.exc, !.sent = TRUE]
         /\ tables' = d.tables
    /\ written' = <<>>
    /\ UNCHANGED entities
    /\ UNCHANGED conn

\* await T.query(pk, sk, operator)
Query(T, pk, sk, operator, now) ==
    /\ Idle
    /\ T \in entities
    /\ \E q \in {DynaModel_query(T, entities, tables, pk, sk, operator, now)} :
         /\ call' = [NoCall EXCEPT !.op = "query", !.type = T, !.pk = pk, !.sk = sk,
                                   !.operator = operator]
         /\ ret' = [NoRet EXCEPT !.status = Status(q.ok), !.exc = q.exc,
                                 !.data = q.data, !.recs = q.recs, !.cond = q.cond,
                                 !.values = q.values, !.sent = q.sent]
    /\ UNCHANGED <<entities, tables, written>>
    /\ UNCHANGED conn

\* await T.scan(limit=..., offset=...)
Scan(T, limit, offset, now) ==
    /\ Idle
    /\ T \in entities
    /\ \E order \in Orders(ItemsOf(tables, DynamoDB_table_name(entities))) :
         \E s \in {DynaModel_scan(T, entities, tables, limit, offset, order, now)} :
           /\ call' = [NoCall EXCEPT !.op = "scan", !.type = T, !.limit = limit,
                                     !.offset = offset]
           /\ ret' = [NoRet EXCEPT !.status = Status(s.ok), !.exc = s.exc,
                                   !.data = s.data, !.recs = s.recs, !.sent = TRUE]
    /\ UNCHANGED <<entities, tables, written>>
    /\ UNCHANGED conn

\* await cls.create_table()
CreateTable(cls, fault) ==
    /\ Idle
    /\ \E c \in {DynaModel_create_table(cls, entities, tables, fault)} :
         /\ call' = [NoCall EXCEPT !.op = "create_table", !.type = cls]
         /\ ret' = [NoRet EXCEPT !.status = "ok", !.msg = c.msg, !.sent = TRUE,
                                 !.waited = c.waited]
         /\ tables' = c.tables
    /\ written' = <<>>
    /\ UNCHANGED entities
    /\ UNCHANGED conn

\* await cls.drop_table()
DropTable(cls) ==
    /\ Idle
    /\ \E d \in {DynaModel_drop_table(cls, entities, tables)} :
         /\ call' = [NoCall EXCEPT !.op = "drop_table", !.type = cls]
         /\ ret' = [NoRet EXCEPT !.status = "ok",
                                 !.msg = IF d.dropped THEN "True" ELSE "False",
                                 !.sent = TRUE]
         /\ tables' = d.tables
    /\ written' = <<>>
    /\ UNCHANGED entities
    /\ UNCHANGED conn

Classes == {"DynaModel"} \cup Types

Next ==
    \/ \E T \in Types, now \in Stamps : \E kwargs \in Kwargs(T) : Construct(T, kwargs, now)
    \/ \E T \in Types, now \in Stamps : \E kwargs \in Kwargs(T) : Put(T, kwargs, now)
    \/ \E T \in Types, pk \in PkArgs, sk \in SkArgs, now \in Stamps : Get(T, pk, sk, now)
    \/ \E T \in Types, pk \in PkArgs, sk \in SkArgs : Delete(T, pk, sk)
    \/ \E T \in Types, pk \in PkArgs, sk \in QuerySk, operator \in OperatorArgs, now \in Stamps :
         Query(T, pk, sk, operator, now)
    \/ \E T \in Types, limit \in {0, 1}, offset \in {0, 1}, now \in Stamps :
         Scan(T, limit, offset, now)
    \/ \E cls \in Classes : CreateTable(cls, "none")
    \/ \E cls \in Classes : DropTable(cls)
    \/ Resume

Spec == Init /\ [][Next]_vars

\* the table's lifecycle, with the store failing calls of create_table
NextLifecycle ==
    \/ \E cls \in Classes, fault \in Faults : CreateTable(cls, fault)
    \/ \E cls \in Classes : DropTable(cls)
    \/ \E T \in Types, now \in Stamps : \E kwargs \in Kwargs(T) : Put(T, kwargs, now)
    \/ \E T \in Types, pk \in PkArgs, sk \in SkArgs : Delete(T, pk, sk)
    \/ Resume

SpecLifecycle == Init /\ [][NextLifecycle]_vars

\* LazyProxy.__get_proxied__ on cls.db of T (reached through __getattr__,
\* __repr__ and __dir__): loads a Session unless one is proxied
GetProxied(T) ==
    /\ T \in entities
    /\ db' = [db EXCEPT ![T] =
                IF @.proxied # 0 THEN [@ EXCEPT !.accessed = TRUE]
                ELSE [@ EXCEPT !.sessions = @ + 1, !.proxied = db[T].sessions + 1,
                               !.accessed = TRUE]]
    /\ UNCHANGED <<entities, tables, call, ret, written, pc>>

\* self.client, cached: the operation gets the handle the object holds
ClientHit(t, T) ==
    /\ T \in entities
    /\ pc[t].at = "idle"
    /\ db[T].client # 0
    /\ pc' = [pc EXCEPT ![t] = [at |-> "idle", owner |-> T, got |-> db[T].client]]
    /\ db' = [db EXCEPT ![T].accessed = TRUE]
    /\ UNCHANGED <<entities, tables, call, ret, written>>

\* self.client, not cached, where cached_property takes no lock: the
\* operation has seen that no handle is held and goes on to construct one
ClientMiss(t, T) ==
    /\ T \in entities
    /\ pc[t].at = "idle"
    /\ db[T].client = 0
    /\ pc' = [pc EXCEPT ![t] = [at |-> "miss", owner |-> T, got |-> 0]]
    /\ db' = [db EXCEPT ![T].accessed = TRUE]
    /\ UNCHANGED <<entities, tables, call, ret, written>>

\* the operation constructs self.session.client(...), stores it as the
\* object's client and gets it
ClientStore(t) ==
    /\ pc[t].at = "miss"
    /\ db' = [db EXCEPT ![pc[t].owner] =
                [@ EXCEPT !.clients = @ + 1, !.client = db[pc[t].owner].clients + 1]]
    /\ pc' = [pc EXCEPT ![t] = [at |-> "idle", owner |-> pc[t].owner,
                                got |-> db[pc[t].owner].clients + 1]]
    /\ UNCHANGED <<entities, tables, call, ret, written>>

\* self.client, not cached, where cached_property holds its lock from the
\* look-up to the store: the handle is constructed and stored in one step
ClientLoad(t, T) ==
    /\ T \in entities
    /\ pc[t].at = "idle"
    /\ db[T].client = 0
    /\ \A u \in Threads : ~(pc[u].at = "miss" /\ pc[u].owner = T)
    /\ db' = [db EXCEPT ![T] =
                [@ EXCEPT !.clients = @ + 1, !.client = db[T].clients + 1,
                          !.accessed = TRUE]]
    /\ pc' = [pc EXCEPT ![t] = [at |-> "idle", owner |-> T, got |-> db[T].clients + 1]]
    /\ UNCHANGED <<entities, tables, call, ret, written>>

\* the record types whose DynamoDB objects the connection model follows
Owners == {"Task", "User"}

NextSession ==
    \/ \E T \in Owners : DefineType(T)
    \/ \E T \in Owners : GetProxied(T)
    \/ \E t \in Threads, T \in Owners : ClientHit(t, T)
    \/ \E t \in Threads, T \in Owners : ClientMiss(t, T)
    \/ \E t \in Threads : ClientStore(t)
    \/ \E t \in Threads, T \in Owners : ClientLoad(t, T)

SpecSession == InitRegistry /\ [][NextSession]_vars

\* the record types the class model defines, one of them derived from another
Derivations == {"Admin", "Task", "User"}

\* class definitions interleaved with the table's creation and removal,
\* called on the base class and on the record types
NextClasses ==
    \/ \E T \in Derivations : DefineType(T)
    \/ \E cls \in {"DynaModel"} \cup Derivations : CreateTable(cls, "none")
    \/ \E cls \in {"DynaModel"} \cup Derivations : DropTable(cls)
    \/ Resume

SpecClasses == InitRegistry /\ [][NextClasses]_vars

NextRegistry ==
    \/ \E T \in Types : DefineType(T)
    \/ \E cls \in Classes : TableName(cls)

SpecRegistry == InitRegistry /\ [][NextRegistry]_vars

---------------------------------------------------------------------------
(* Properties *)

\* the records a call handed back, and the call's record type
Returned == {ret.recs[i] : i \in 1..Len(ret.recs)}

\* the partition-key contributor each record type declares
PkContributor(T) == IF T = "User" THEN "sub" ELSE "user"

\* the string forms of the sort-key contributors of a record, in the order
\* its type declares them
SkParts(T, r) ==
    CASE T = "Task" -> <<pystr(r["completed"])>>
      [] T = "User" -> <<pystr(r["locale"])>>
      [] T = "Post" -> <<pystr(r["namespace"]), pystr(r["created_at"])>>
      [] T = "Namespace" -> <<pystr(r["namespace"])>>
      [] T = "Note" -> <<>>

\* C1: the partition key of every record instance is "<TypeName>#" followed
\* by the string form of its partition-key contributor, and deriving it
\* again from the same field values gives the same string.
C1_PartitionKeyPrefix ==
    \A r \in Returned :
      /\ StartsWith(r["pk"].s, call.type \o "#")
      /\ r["pk"] = Str(call.type \o "#" \o pystr(r[PkContributor(call.type)]))
      /\ pk_(call.type, r).ok
      /\ pk_(call.type, r).s = r["pk"].s

C1_Witness ==
    /\ call.op = "construct"
    /\ call.type = "User"
    /\ ret.status = "ok"
    /\ ret.recs[1]["pk"] = Str("User#u")

\* C2: the sort key of an instance of a type with N >= 1 sort-key
\* contributors is the "#"-join of their string forms in declaration order;
\* constructing an instance of a type with none (Note) fails with the
\* missing-key error.
C2_SortKeyJoin ==
    /\ \A r \in Returned :
         /\ SkParts(call.type, r) # <<>>
         /\ Len(SkParts(call.type, r)) = Len(Flagged(Fields(call.type), "sk"))
         /\ r["sk"] = Str(join("#", SkParts(call.type, r)))
    /\ (call.op = "construct" /\ call.type = "Note" /\ "user" \in DOMAIN call.kwargs[1])
         => /\ ret.status = "raise"
            /\ ret.exc = "ValueError: No sort key found"
            /\ ret.recs = <<>>

C2_Witness ==
    /\ call.op = "construct"
    /\ call.type = "Post"
    /\ ret.status = "ok"
    /\ ret.recs[1]["sk"] = Str("a#b")

\* C3: the table name a call returns is the "-"-join of the names of the
\* types registered at that moment, in alphabetical order, whatever the
\* order they registered in: "Note-Task" for Task and Note, "" for none.
C3_Alphabetical == <<"Namespace", "Note", "Post", "Task", "User">>

C3_Registered(T) == T \in entities

C3_TableNameSorted ==
    call.op = "table_name" =>
      /\ ret.msg = join("-", SelectSeq(C3_Alphabetical, C3_Registered))
      /\ entities = {"Task", "Note"} => ret.msg = "Note-Task"
      /\ entities = {} => ret.msg = ""

C3_Witness ==
    /\ call.op = "table_name"
    /\ entities = {"Task", "Note"}
    /\ ret.msg = "Note-Task"

\* the sort-key contributors of T whose value in instance r is None
C7_Absent(T, r) ==
    {i \in 1..Len(Flagged(Fields(T), "sk")) : r[Flagged(Fields(T), "sk")[i]] = None}

\* C7 as stated: for a record type that declares sort-key contributors, an
\* instance whose value for one of them is None is not built (key
\* derivation fails with the missing-key error), and the sort-key failure
\* occurs only when such a value is None.
C7_Claim ==
    (call.type \in Types /\ Flagged(Fields(call.type), "sk") # <<>>) =>
      /\ \A r \in Returned : C7_Absent(call.type, r) = {}
      /\ (call.op = "construct" /\ ret.exc = "ValueError: No sort key found")
           => C7_Absent(call.type, Validate(call.type, call.kwargs[1], "b").inst) # {}

\* the record type whose put wrote instance r
WrittenType(r) == split(r["pk"].s, "#")[1]

\* the call is T.get(k, r.sk) for the record r last put, k the value of r's
\* partition-key contributor, with no write to the store in between
C4_GetOfWritten ==
    /\ call.op = "get"
    /\ written # <<>>
    /\ call.type = WrittenType(written[1])
    /\ call.pk = pystr(written[1][PkContributor(call.type)])
    /\ call.sk = written[1]["sk"]

\* C4 as stated: r.put() followed by T.get(k, r.sk) returns a record whose
\* fields, and whose derived pk and sk, equal those of r.
C4_RoundTrip ==
    C4_GetOfWritten =>
      /\ ret.status = "ok"
      /\ Len(ret.recs) = 1
      /\ ret.recs[1]["pk"] = written[1]["pk"]
      /\ ret.recs[1]["sk"] = written[1]["sk"]
      /\ \A n \in FieldNames(call.type) : ret.recs[1][n] = written[1][n]

\* the dictionaries a call got from the store that are stored items
C5_ItemsReturned == {d \in {ret.data[i] : i \in 1..Len(ret.data)} : "pk" \in DOMAIN d}

\* get, query and scan issued through A return only items whose partition
\* key carries the "A#" prefix
C5_ReturnsOwnItems ==
    (call.op \in {"get", "query", "scan"} /\ ret.status = "ok") =>
      \A d \in C5_ItemsReturned : StartsWith(d["pk"].s, call.type \o "#")

\* a put or delete issued through A leaves every item of another type in
\* its table
C5_KeepsOthers ==
    (call'.op \in {"put", "delete"}) =>
      \A n \in DOMAIN tables : \A i \in tables[n].items :
        ~StartsWith(i["pk"].s, call'.type \o "#")
          => (n \in DOMAIN tables' /\ i \in tables'[n].items)

\* C5 as stated: a put or delete issued through type A never overwrites or
\* removes an item written through another type B, and get, query and scan
\* issued through A return only items whose partition key starts with "A#".
C5_NoCollision == []C5_ReturnsOwnItems /\ [][C5_KeepsOthers]_vars

\* the get was a miss: the table exists and holds no item under the key asked for
C6_Miss ==
    /\ call.op = "get"
    /\ DynamoDB_table_name(entities) \in DOMAIN tables
    /\ \A i \in ItemsOf(tables, DynamoDB_table_name(entities)) :
         ~HasKey(i, call.type \o "#" \o call.pk, call.sk.s)

\* C6 as stated: a get for a (pk, sk) under which nothing is stored does
\* not raise, at the table level (the empty dictionary comes back) and at
\* the record-type level (the call returns).
C6_MissDoesNotRaise ==
    C6_Miss =>
      /\ ret.data = <<EmptyDict>>
      /\ ret.status = "ok"

\* the stored items of the partition a query addressed
C8_Partition ==
    {i \in ItemsOf(tables, DynamoDB_table_name(entities)) :
       i["pk"].s = call.type \o "#" \o call.pk}

C8_Call ==
    /\ call.op = "query"
    /\ call.operator = Str("begins_with")
    /\ call.sk.t = "str"
    /\ DynamoDB_table_name(entities) \in DOMAIN tables

\* the query returned exactly the items of the partition whose sort key
\* starts with the literal sk, in ascending sort-key order
C8_Results ==
    /\ ret.status = "ok"
    /\ {ret.data[i] : i \in 1..Len(ret.data)}
         = {deserialize(i) : i \in {j \in C8_Partition : StartsWith(j["sk"].s, call.sk.s)}}
    /\ \A i, j \in 1..Len(ret.data) : i < j => StrLess(ret.data[i]["sk"].s, ret.data[j]["sk"].s)
    /\ Len(ret.recs) = Len(ret.data)
    /\ \A i \in 1..Len(ret.recs) : ret.recs[i]["sk"] = ret.data[i]["sk"]

C8_PrefixCondition ==
    /\ ret.cond = "pk = :pk AND begins_with ( sk, :sk )"
    /\ DOMAIN ret.values = {":pk", ":sk"}
    /\ ret.values[":pk"] = SAttr(call.type \o "#" \o call.pk)
    /\ ret.values[":sk"] = SAttr(call.sk.s)

C8_PartitionCondition ==
    /\ ret.cond = "pk = :pk"
    /\ DOMAIN ret.values = {":pk"}
    /\ ret.values[":pk"] = SAttr(call.type \o "#" \o call.pk)

C9_Between ==
    (call.op = "query" /\ call.operator = Str("between") /\ call.sk.t = "str") =>
      IF Len(split(call.sk.s, "-")) = 2
      THEN /\ ret.sent
           /\ ret.cond = "pk = :pk AND sk BETWEEN :sk0 AND :sk1"
           /\ ret.values[":sk0"] = SAttr(split(call.sk.s, "-")[1])
           /\ ret.values[":sk1"] = SAttr(split(call.sk.s, "-")[2])
      ELSE /\ ret.status = "raise"
           /\ ~ret.sent

\* C10 as stated: a query whose operator is none of the accepted values
\* fails with the invalid-operator error and issues no query, whether or
\* not a sort-key value is supplied; with no sort-key value and no operator
\* the query is sent with the partition-key condition alone.
C10_InvalidOperator ==
    call.op = "query" =>
      /\ call.operator \notin {None} \cup Operator =>
           /\ ret.status = "raise"
           /\ ret.exc = "ValueError: Invalid sort key"
           /\ ~ret.sent
      /\ (call.sk = None /\ call.operator = None) =>
           /\ ret.sent
           /\ ret.cond = "pk = :pk"

\* the table create_table was called for
C11_Name == DynaModel_table_name(call.type, entities)

\* every create_table call returns one of the two status messages, and one
\* that reports success has created the table with the change stream and
\* time-to-live enabled and has waited for it to be ready
C11_Returns ==
    call.op = "create_table" =>
      /\ ret.status = "ok"
      /\ ret.msg \in {"Table " \o C11_Name \o " created successfully",
                      "Table " \o C11_Name \o " already exists"}
      /\ ret.msg = "Table " \o C11_Name \o " created successfully" =>
           /\ C11_Name \in DOMAIN tables
           /\ tables[C11_Name] = [items |-> {}, stream |-> TRUE, ttl |-> TRUE]
           /\ ret.waited

\* a create_table call made when the table exists reports "already exists"
\* and leaves every table and its items as they were
C11_KeepsExisting ==
    (call'.op = "create_table"
       /\ DynaModel_table_name(call'.type, entities) \in DOMAIN tables) =>
      /\ ret'.status = "ok"
      /\ ret'.msg = "Table " \o DynaModel_table_name(call'.type, entities) \o " already exists"
      /\ tables' = tables

\* C11: create_table never propagates a failure and is idempotent: each call
\* returns a status message; a call made when the table exists returns
\* "already exists" and leaves the table and its items unchanged; a call in
\* which a creation step fails returns "already exists" too; a call that
\* returns "created successfully" has created the table, enabled the change
\* stream and time-to-live, and waited until the table is ready.
C11_CreateTableIdempotent == []C11_Returns /\ [][C11_KeepsExisting]_vars

\* a second create_table on a table that holds an item
C11_Witness ==
    /\ call.op = "create_table"
    /\ call.type = "DynaModel"
    /\ ret.msg = "Table Namespace-Note-Post-Task-User already exists"
    /\ C11_Name \in DOMAIN tables
    /\ tables[C11_Name].items # {}

\* the items stored under the key a delete names
C12_Under(tbls, c) ==
    {i \in ItemsOf(tbls, DynamoDB_table_name(entities)) :
       HasKey(i, c.type \o "#" \o c.pk, c.sk.s)}

\* a delete on the existing table succeeds and removes the items under its
\* key and no other; with nothing under the key the store stays as it was
C12_RemovesOnlyKey ==
    (call'.op = "delete" /\ DynamoDB_table_name(entities) \in DOMAIN tables) =>
      /\ ret'.status = "ok"
      /\ DOMAIN tables' = DOMAIN tables
      /\ \A n \in DOMAIN tables :
           IF n = DynamoDB_table_name(entities)
           THEN /\ tables'[n].items = tables[n].items \ C12_Under(tables, call')
                /\ tables'[n].stream = tables[n].stream
                /\ tables'[n].ttl = tables[n].ttl
           ELSE tables'[n] = tables[n]
      /\ C12_Under(tables, call') = {} => tables' = tables

\* after a delete has succeeded, the same delete again succeeds and leaves
\* the store as the first one left it
C12_TwiceAsOnce ==
    (call.op = "delete" /\ ret.status = "ok") =>
      /\ C12_Under(tables, call) = {}
      /\ DynaModel_delete(call.type, entities, tables, call.pk, call.sk.s).ok
      /\ DynaModel_delete(call.type, entities, tables, call.pk, call.sk.s).tables = tables

\* C12: delete(pk, sk) on the existing table is idempotent: deleting a key
\* under which no item is stored succeeds and leaves the store unchanged, a
\* second delete of the same key succeeds and leaves the store as the first
\* did, and no item under another key is removed.
C12_DeleteIdempotent == []C12_TwiceAsOnce /\ [][C12_RemovesOnlyKey]_vars

\* a delete has succeeded and an item under another key of the same
\* partition is still stored
C12_Witness ==
    /\ call.op = "delete"
    /\ ret.status = "ok"
    /\ call.type = "Post"
    /\ call.pk = "u"
    /\ call.sk = Str("a#b")
    /\ \E i \in ItemsOf(tables, DynamoDB_table_name(entities)) :
         i["pk"] = SAttr("Post#u") /\ i["sk"] = SAttr("c#b")

\* C13 as stated: the handles of a DynamoDB object are created lazily and
\* exactly once: none is constructed before the first access, and every
\* access returns the same handle, so that the object never constructs more
\* than one session or more than one client, also when two operations make
\* their first access at once.
C13_LazySingleHandle ==
    /\ \A T \in DOMAIN db :
         /\ ~db[T].accessed => (db[T].sessions = 0 /\ db[T].clients = 0)
         /\ db[T].sessions <= 1
         /\ db[T].clients <= 1
    /\ \A t, u \in Threads :
         (pc[t].owner = pc[u].owner /\ pc[t].got # 0 /\ pc[u].got # 0)
           => pc[t].got = pc[u].got

\* C14 as stated: the table name create_table and drop_table operate on,
\* computed from the subclasses of the class they are called on, equals the
\* table name get, put, delete, query and scan operate on, computed from the
\* registered entity set, for every set of defined record types (a derived
\* record type included) and whether the call is made on the base class or
\* on a record type.
C14_SameTableName ==
    (call.op \in {"create_table", "drop_table"}) =>
      DynaModel_table_name(call.type, entities) = DynamoDB_table_name(entities)

=============================================================================
